---- MODULE Spec2Model ----
(***************************************************************************)
(* Model of the authentication subsystem of assetsync-backend: the         *)
(* account lifecycle routes (routes/auth.ts), the auth gate                *)
(* (middleware/auth.ts), the token codec (lib/auth/jwt.ts), the password   *)
(* hasher (lib/auth/passwords.ts) and the users / sessions /               *)
(* password_resets tables (lib/db.ts).                                     *)
(*                                                                         *)
(* Every request runs as an independent asynchronous task.  A task owns a  *)
(* slot of reqs; each awaited statement of the store is one atomic step,   *)
(* and the local computation that follows it (hashing, signing, building   *)
(* the response) belongs to the same step.  Time is counted in seconds.    *)
(* A signed token is modelled by its claim set: HS256 signing is           *)
(* deterministic, so equal claim sets are equal token strings.  The length *)
(* of the encoded string is not modelled: an insert into sessions fails    *)
(* here only on sessions_token_unique, not on the width of the token       *)
(* column (varchar(255)).                                                  *)
(*                                                                         *)
(* A client presents tokens it was handed, forgeries of them and strings   *)
(* that are no token.  The store fails only where an action says so: the   *)
(* delete of logout and the last-login update of login.                    *)
(***************************************************************************)
EXTENDS Integers, Sequences, FiniteSets, TLC

\* ---- bounds of the model ----
MaxSlots == 2
MaxRequests == 4
MaxTicks == 1

Emails == {"alice@x.io", "bob@x.io"}
Passwords == {"Passw0rd!", "N3wPassw0rd!"}
UserTypes == {"personal"}
TickSteps == {1, 900, 3600}
LongTickSteps == {604800, 604801}

\* ---- program constants (seconds) ----
ACCESS_TOKEN_EXPIRES_IN == 900
REFRESH_TOKEN_EXPIRES_IN == 604800
SESSION_TTL == 900
RESET_TTL == 3600

Slots == 1..MaxSlots

VARIABLES
  now,            \* Date.now(), in seconds
  ticks,          \* number of clock advances so far (bounds the run)
  jwtSecret,      \* TRUE iff JWT_SECRET is configured
  users,          \* table users: sequence of rows, id = index
  sessions,       \* table sessions: set of rows, token unique
  passwordResets, \* table password_resets: sequence of rows, id = token = index
  reqs,           \* request tasks: slot -> task record
  nreq,           \* number of requests accepted so far (bounds the run)
  assets,         \* table assets: sequence of rows, id = index
  assetCategories,\* table asset_categories: sequence of rows, id = index
  issued,         \* tokens that some response has handed to a client
  loggedOut,      \* history: bearer tokens for which logout answered 'Logout successful'
  invalidated,    \* history: tokens issued to an account before a successful reset of it
  consumed        \* history: reset tickets with which a password-reset has answered 200

vars == <<now, ticks, jwtSecret, users, sessions, passwordResets, reqs, nreq,
          issued, loggedOut, invalidated, consumed, assets, assetCategories>>

store == <<users, sessions, passwordResets>>

\* ---- responses ----
Resp(status, message) ==
  [status |-> status, message |-> message, user |-> 0, tokens |-> {}, resetToken |-> 0,
   data |-> {}]

NoResp == Resp(0, "")

\* ---- password hasher ----
hashPassword(password) == <<"bcrypt", password>>

verifyPassword(password, hashedPassword) == hashedPassword = <<"bcrypt", password>>

\* ---- token codec ----
generateAccessToken(userId, email, userType, t) ==
  [userId |-> userId, email |-> email, type |-> userType, tokenType |-> "access",
   iat |-> t, exp |-> t + ACCESS_TOKEN_EXPIRES_IN, sig |-> "valid"]

generateRefreshToken(userId, email, userType, t) ==
  [userId |-> userId, email |-> email, type |-> userType, tokenType |-> "refresh",
   iat |-> t, exp |-> t + REFRESH_TOKEN_EXPIRES_IN, sig |-> "valid"]

generateTokenPair(userId, email, userType, t) ==
  [accessToken |-> generateAccessToken(userId, email, userType, t),
   refreshToken |-> generateRefreshToken(userId, email, userType, t)]

\* a token whose signature was not made with the server's secret
Forged(token) == [token EXCEPT !.sig = "forged"]

\* a string that is no JWT
Malformed ==
  [userId |-> 0, email |-> "", type |-> "", tokenType |-> "", iat |-> 0, exp |-> 0,
   sig |-> "malformed"]

\* hono/jwt verify without its test of exp
VerifyFailure_NoExp(token, t) ==
  IF token.sig = "malformed" THEN "JwtTokenInvalid"
  ELSE IF token.sig # "valid" THEN "JwtTokenSignatureMismatched"
  ELSE "none"

\* hono/jwt verify: the error it throws, "none" when the token verifies.
\* The structure is parsed first, exp <= now is tested next, the signature last.
VerifyFailure(token, t) ==
  IF token.sig = "malformed" THEN "JwtTokenInvalid"
  ELSE IF token.exp <= t THEN "JwtTokenExpired"
  ELSE IF token.sig # "valid" THEN "JwtTokenSignatureMismatched"
  ELSE "none"

\* verifyToken returns the payload, or throws 'Invalid token: ...'
verifyToken(token, t) == VerifyFailure(token, t) = "none"

\* ---- the Authorization header ----
\* what a client can put after 'Bearer ': a token it was handed, a forgery of
\* one, or a string that is no token
Presentable(known) ==
  known \cup {Forged(t) : t \in known} \cup {Malformed}

Headers(known) ==
  {[scheme |-> "none", token |-> Malformed], [scheme |-> "Basic", token |-> Malformed]}
    \cup {[scheme |-> "Bearer", token |-> t] : t \in Presentable(known)}

\* the token of a 'Bearer <token>' header, {} for any other header or none
extractTokenFromHeader(authHeader) ==
  IF authHeader.scheme = "Bearer" THEN {authHeader.token} ELSE {}

NoPair == [accessToken |-> 0, refreshToken |-> 0]

\* ---- request tasks ----
Idle ==
  [op |-> "none", pc |-> "idle", email |-> "", password |-> "", type |-> "",
   bearer |-> {}, ticket |-> 0, uid |-> 0, rid |-> 0, hash |-> <<>>, pair |-> NoPair,
   sessExp |-> 0, case |-> "", pre |-> {}, resp |-> NoResp, id |-> 0, write |-> <<>>]

Free(s) == reqs[s].pc \in {"idle", "done"}

\* a new request is taken by the lowest slot that runs no task
Accept(s) ==
  /\ Free(s)
  /\ \A q \in Slots : q < s => ~Free(q)
  /\ nreq < MaxRequests

\* the task ends with a response; its locals die with it
Done(r, resp) ==
  [Idle EXCEPT !.op = r.op, !.pc = "done", !.email = r.email, !.bearer = r.bearer,
               !.ticket = r.ticket, !.uid = r.uid, !.pair = r.pair, !.case = r.case,
               !.pre = r.pre, !.resp = resp, !.id = r.id]

UserByEmail(email) == {i \in DOMAIN users : users[i].email = email}

Init ==
  /\ now = 0
  /\ ticks = 0
  /\ jwtSecret = TRUE
  /\ users = <<>>
  /\ sessions = {}
  /\ passwordResets = <<>>
  /\ reqs = [s \in Slots |-> Idle]
  /\ nreq = 0
  /\ issued = {}
  /\ loggedOut = {}
  /\ invalidated = {}
  /\ consumed = {}
  /\ assets = <<>>
  /\ assetCategories = <<>>

\* ---- the clock ----
Tick ==
  /\ ticks < MaxTicks
  /\ \E d \in TickSteps : now' = now + d
  /\ ticks' = ticks + 1
  /\ UNCHANGED <<assets, assetCategories, jwtSecret, users, sessions, passwordResets, reqs, nreq,
                 issued, loggedOut, invalidated, consumed>>

\* the clock passes the lifetime of a refresh token
TickLong ==
  /\ ticks < MaxTicks
  /\ \E d \in LongTickSteps : now' = now + d
  /\ ticks' = ticks + 1
  /\ UNCHANGED <<assets, assetCategories, jwtSecret, users, sessions, passwordResets, reqs, nreq,
                 issued, loggedOut, invalidated, consumed>>

\* ---- POST /register ----
RegisterConflictError == Resp(409, "User with this email already exists")

RegisterInternalError == Resp(500, "Internal server error during registration")

\* users.email without its unique constraint
UsersEmailUnique_Dropped(email) == TRUE

\* the unique constraint users_email_unique
UsersEmailUnique(email) == UserByEmail(email) = {}

\* the unique constraint sessions_token_unique
SessionsTokenUnique(token) == \A row \in sessions : row.token # token

\* select by email; 409 when a row exists, otherwise hash the password
RegisterSelect(s) ==
  /\ Accept(s)
  /\ nreq' = nreq + 1
  /\ \E email \in Emails, password \in Passwords, type \in UserTypes :
       LET r == [Idle EXCEPT !.op = "register", !.email = email,
                             !.password = password, !.type = type]
       IN reqs' = [reqs EXCEPT ![s] =
            IF UserByEmail(email) # {}
            THEN Done([r EXCEPT !.case = "taken"], RegisterConflictError)
            ELSE [r EXCEPT !.pc = "reg_insert", !.hash = hashPassword(password)]]
  /\ UNCHANGED <<assets, assetCategories, now, ticks, jwtSecret, users, sessions, passwordResets,
                 issued, loggedOut, invalidated, consumed>>

\* insert the account row, then sign the token pair
RegisterInsert(s) ==
  LET r == reqs[s] IN
  /\ r.pc = "reg_insert"
  /\ IF ~UsersEmailUnique(r.email)
     THEN /\ reqs' = [reqs EXCEPT ![s] = Done([r EXCEPT !.case = "taken"], RegisterInternalError)]
          /\ users' = users
     ELSE /\ users' = Append(users, [email |-> r.email, passwordHash |-> r.hash,
                                     type |-> r.type, deletedAt |-> {},
                                     lastLoginAt |-> {}])
          /\ reqs' = [reqs EXCEPT ![s] =
               IF ~jwtSecret
               THEN Done([r EXCEPT !.uid = Len(users) + 1], RegisterInternalError)
               ELSE [r EXCEPT !.pc = "reg_session", !.uid = Len(users) + 1,
                              !.pair = generateTokenPair(Len(users) + 1, r.email, r.type, now),
                              !.sessExp = now + SESSION_TTL]]
  /\ UNCHANGED <<assets, assetCategories, now, ticks, jwtSecret, sessions, passwordResets, nreq,
                 issued, loggedOut, invalidated, consumed>>

\* insert the session row for the access token and answer 201
RegisterSession(s) ==
  LET r == reqs[s] IN
  /\ r.pc = "reg_session"
  /\ IF ~SessionsTokenUnique(r.pair.accessToken)
     THEN /\ reqs' = [reqs EXCEPT ![s] = Done(r, RegisterInternalError)]
          /\ UNCHANGED <<sessions, issued>>
     ELSE /\ sessions' = sessions \cup
               {[userId |-> r.uid, token |-> r.pair.accessToken, expiresAt |-> r.sessExp]}
          /\ reqs' = [reqs EXCEPT ![s] =
               Done(r, [Resp(201, "User registered successfully") EXCEPT
                          !.user = r.uid,
                          !.tokens = {r.pair.accessToken, r.pair.refreshToken}])]
          /\ issued' = issued \cup {r.pair.accessToken, r.pair.refreshToken}
  /\ UNCHANGED <<assets, assetCategories, now, ticks, jwtSecret, users, passwordResets, nreq,
                 loggedOut, invalidated, consumed>>

\* ---- POST /login ----
LoginNoUserError == Resp(401, "Invalid email or password")

\* a wrong-password answer that names the password
LoginWrongPasswordError_Leak == Resp(401, "Invalid password")

LoginWrongPasswordError == Resp(401, "Invalid email or password")

LoginInternalError == Resp(500, "Internal server error during login")

\* what a login with these credentials meets in the users table
LoginCase(email, password) ==
  IF UserByEmail(email) = {} THEN "absent"
  ELSE LET u == users[CHOOSE i \in UserByEmail(email) : TRUE] IN
       IF u.deletedAt # {} THEN "deleted"
       ELSE IF u.passwordHash # hashPassword(password) THEN "wrongpw"
       ELSE "ok"

\* select by email, check the soft-delete marker and the password, sign the pair
\* what the history says about the account of a login when the request arrives:
\* "afterReset" when a password-reset of the account has answered 200 and no
\* other reset of it is under way
LoginPre(email) ==
  {k \in {"afterReset"} :
     \E id \in UserByEmail(email) :
       /\ \E t \in consumed : passwordResets[t].userId = id
       /\ \A q \in Slots : ~(reqs[q].op = "reset" /\ reqs[q].pc # "done" /\ reqs[q].uid = id)}

LoginSelect(s) ==
  /\ Accept(s)
  /\ nreq' = nreq + 1
  /\ \E email \in Emails, password \in Passwords :
       LET r == [Idle EXCEPT !.op = "login", !.email = email, !.password = password,
                             !.case = LoginCase(email, password), !.pre = LoginPre(email)]
           userResult == UserByEmail(email)
           id == CHOOSE i \in userResult : TRUE
       IN reqs' = [reqs EXCEPT ![s] =
            IF userResult = {} \/ users[id].deletedAt # {}
            THEN Done(r, LoginNoUserError)
            ELSE IF ~verifyPassword(password, users[id].passwordHash)
            THEN Done(r, LoginWrongPasswordError)
            ELSE IF ~jwtSecret
            THEN Done(r, LoginInternalError)
            ELSE [r EXCEPT !.pc = "login_session", !.uid = id, !.type = users[id].type,
                           !.pair = generateTokenPair(id, users[id].email, users[id].type, now),
                           !.sessExp = now + SESSION_TTL]]
  /\ UNCHANGED <<assets, assetCategories, now, ticks, jwtSecret, users, sessions, passwordResets,
                 issued, loggedOut, invalidated, consumed>>

\* insert the session row for the access token
LoginSession(s) ==
  LET r == reqs[s] IN
  /\ r.pc = "login_session"
  /\ IF ~SessionsTokenUnique(r.pair.accessToken)
     THEN /\ reqs' = [reqs EXCEPT ![s] = Done(r, LoginInternalError)]
          /\ sessions' = sessions
     ELSE /\ sessions' = sessions \cup
               {[userId |-> r.uid, token |-> r.pair.accessToken, expiresAt |-> r.sessExp]}
          /\ reqs' = [reqs EXCEPT ![s].pc = "login_update"]
  /\ UNCHANGED <<assets, assetCategories, now, ticks, jwtSecret, users, passwordResets, nreq,
                 issued, loggedOut, invalidated, consumed>>

\* update last_login_at and answer 200
LoginUpdate(s) ==
  LET r == reqs[s] IN
  /\ r.pc = "login_update"
  /\ users' = [users EXCEPT ![r.uid].lastLoginAt = {now}]
  /\ reqs' = [reqs EXCEPT ![s] =
       Done(r, [Resp(200, "Login successful") EXCEPT
                  !.user = r.uid,
                  !.tokens = {r.pair.accessToken, r.pair.refreshToken}])]
  /\ issued' = issued \cup {r.pair.accessToken, r.pair.refreshToken}
  /\ UNCHANGED <<assets, assetCategories, now, ticks, jwtSecret, sessions, passwordResets, nreq,
                 loggedOut, invalidated, consumed>>

\* the update of last_login_at throws (the store is down): the catch block
\* answers 500; the session row inserted before stays
LoginUpdateFails(s) ==
  LET r == reqs[s] IN
  /\ r.pc = "login_update"
  /\ reqs' = [reqs EXCEPT ![s] = Done(r, LoginInternalError)]
  /\ UNCHANGED <<assets, assetCategories, now, ticks, jwtSecret, users, sessions, passwordResets, nreq,
                 issued, loggedOut, invalidated, consumed>>

\* ---- POST /logout ----
\* the answer of the catch block with the status of the other routes' catch blocks
LogoutFailureResponse_Internal == Resp(500, "Internal server error during logout")

\* the answer of the catch block: the delete statement threw
LogoutFailureResponse == Resp(200, "Logout completed")

\* delete from sessions where token = the presented token
LogoutDelete(rows, token) == {row \in rows : row.token # token}

\* without a header that starts with 'Bearer ' nothing is deleted; otherwise the
\* delete statement runs, and it either succeeds or throws (the store is down).
\* case records the scheme of the header, pre whether the delete threw.
Logout(s) ==
  /\ Accept(s)
  /\ nreq' = nreq + 1
  /\ \E authHeader \in Headers(issued), deleted \in BOOLEAN :
       LET r == [Idle EXCEPT !.op = "logout", !.case = authHeader.scheme,
                             !.bearer = IF authHeader.scheme = "Bearer"
                                        THEN {authHeader.token} ELSE {}]
       IN
       IF authHeader.scheme # "Bearer"
       THEN /\ reqs' = [reqs EXCEPT ![s] = Done(r, Resp(200, "Already logged out"))]
            /\ UNCHANGED <<sessions, loggedOut>>
       ELSE IF deleted
       THEN /\ sessions' = LogoutDelete(sessions, authHeader.token)
            /\ reqs' = [reqs EXCEPT ![s] = Done(r, Resp(200, "Logout successful"))]
            /\ loggedOut' = loggedOut \cup r.bearer
       ELSE /\ reqs' = [reqs EXCEPT ![s] =
                 Done([r EXCEPT !.pre = {"deleteFailed"}], LogoutFailureResponse)]
            /\ UNCHANGED <<sessions, loggedOut>>
  /\ UNCHANGED <<assets, assetCategories, now, ticks, jwtSecret, users, passwordResets, issued, invalidated, consumed>>

\* ---- the auth gate ----
AuthenticationRequired == Resp(401, "Authentication required")

InvalidOrExpiredToken == Resp(401, "Invalid or expired token")

InvalidTokenType == Resp(401, "Invalid token type")

AccountInactive == Resp(401, "User account not found or deactivated")

\* the gate lets the request through: identity set, next() invoked
Admitted(userId) == [Resp(200, "next") EXCEPT !.user = userId]

\* what the history says about a presented bearer token when the request arrives
PreOf(bearer) ==
  {k \in {"loggedOut", "invalidated"} :
     \/ k = "loggedOut" /\ bearer \cap loggedOut # {}
     \/ k = "invalidated" /\ bearer \cap invalidated # {}}

\* the catch block with the thrown error's message passed on to the client
AuthCatch_Message(error) == Resp(401, error)

\* the catch block: an error that is no HTTPException becomes the generic 401
AuthCatch(error) == InvalidOrExpiredToken

\* the gate without its lookup of the account
authMiddleware_NoAccount(bearer) ==
  IF bearer = {} THEN AuthenticationRequired
  ELSE LET payload == CHOOSE t \in bearer : TRUE IN
       IF ~jwtSecret THEN AuthCatch("JWT_SECRET not configured")
       ELSE IF ~verifyToken(payload, now) THEN AuthCatch(VerifyFailure(payload, now))
       ELSE IF payload.tokenType # "access" THEN InvalidTokenType
       ELSE Admitted(payload.userId)

authMiddleware(bearer) ==
  IF bearer = {} THEN AuthenticationRequired
  ELSE LET payload == CHOOSE t \in bearer : TRUE IN
       IF ~jwtSecret THEN AuthCatch("JWT_SECRET not configured")
       ELSE IF ~verifyToken(payload, now) THEN AuthCatch(VerifyFailure(payload, now))
       ELSE IF payload.tokenType # "access" THEN InvalidTokenType
       ELSE IF payload.userId \notin DOMAIN users \/ users[payload.userId].deletedAt # {}
       THEN AccountInactive
       ELSE Admitted(payload.userId)

\* a request to a route guarded by authMiddleware
Gate(s) ==
  /\ Accept(s)
  /\ nreq' = nreq + 1
  /\ \E authHeader \in Headers(issued) :
       LET bearer == extractTokenFromHeader(authHeader) IN
       reqs' = [reqs EXCEPT ![s] =
         Done([Idle EXCEPT !.op = "gate", !.bearer = bearer, !.pre = PreOf(bearer)],
              authMiddleware(bearer))]
  /\ UNCHANGED <<assets, assetCategories, now, ticks, jwtSecret, users, sessions, passwordResets,
                 issued, loggedOut, invalidated, consumed>>

\* ---- optionalAuthMiddleware ----
\* the request goes on without an identity
Anonymous == Resp(200, "next")

\* the identity of a verified access token is attached; every failure is swallowed
\* and the request goes on; the users table is not read
optionalAuthMiddleware(bearer) ==
  IF bearer = {} THEN Anonymous
  ELSE LET payload == CHOOSE t \in bearer : TRUE IN
       IF jwtSecret /\ verifyToken(payload, now) /\ payload.tokenType = "access"
       THEN Admitted(payload.userId)
       ELSE Anonymous

\* a request to a route guarded by optionalAuthMiddleware
OptionalGate(s) ==
  /\ Accept(s)
  /\ nreq' = nreq + 1
  /\ \E authHeader \in Headers(issued) :
       LET bearer == extractTokenFromHeader(authHeader) IN
       reqs' = [reqs EXCEPT ![s] =
         Done([Idle EXCEPT !.op = "optional", !.bearer = bearer, !.pre = PreOf(bearer)],
              optionalAuthMiddleware(bearer))]
  /\ UNCHANGED <<assets, assetCategories, now, ticks, jwtSecret, users, sessions, passwordResets,
                 issued, loggedOut, invalidated, consumed>>

\* ---- sessionMiddleware ----
SessionNotFound == Resp(401, "Session not found or expired")

\* the expiry test of the lookup with the boundary instant included
SessionActive_Inclusive(row, t) == row.expiresAt >= t

\* the expiry test of the lookup: expires_at > now
SessionActive(row, t) == row.expiresAt > t

\* the rows the select returns: token matches and the row has not expired
SessionRows(bearer) == {row \in sessions : row.token \in bearer /\ SessionActive(row, now)}

sessionMiddleware(bearer) ==
  IF bearer = {} THEN AuthenticationRequired
  ELSE IF SessionRows(bearer) = {} THEN SessionNotFound
  ELSE Admitted((CHOOSE row \in SessionRows(bearer) : TRUE).userId)

\* a request to a route guarded by sessionMiddleware; the lookup writes nothing
SessionGate(s) ==
  /\ Accept(s)
  /\ nreq' = nreq + 1
  /\ \E authHeader \in Headers(issued) :
       LET bearer == extractTokenFromHeader(authHeader) IN
       reqs' = [reqs EXCEPT ![s] =
         Done([Idle EXCEPT !.op = "session", !.bearer = bearer, !.pre = PreOf(bearer)],
              sessionMiddleware(bearer))]
  /\ UNCHANGED <<assets, assetCategories, now, ticks, jwtSecret, users, sessions, passwordResets,
                 issued, loggedOut, invalidated, consumed>>

\* ---- POST /refresh-token ----
RefreshInvalid == Resp(401, "Invalid or expired refresh token")

RefreshUserNotFound == Resp(401, "User not found")

\* the purpose test of the route with every verified token accepted
RefreshPurpose_Any(payload) == TRUE

\* the purpose test of the route: tokenType is 'refresh'
RefreshPurpose(payload) == payload.tokenType = "refresh"

\* the session row of the route with the refresh token stored in it
RefreshSessionRow_Refresh(userId, pair, expiresAt) ==
  [userId |-> userId, token |-> pair.refreshToken, expiresAt |-> expiresAt]

\* the session row the route inserts: the account read from the store, the new
\* access token, now + 15 minutes
RefreshSessionRow(userId, pair, expiresAt) ==
  [userId |-> userId, token |-> pair.accessToken, expiresAt |-> expiresAt]

\* verify the presented token, test its purpose, select the account and sign
\* the new pair; the body's refreshToken is any string the client can send
RefreshSelect(s) ==
  /\ Accept(s)
  /\ nreq' = nreq + 1
  /\ \E refreshToken \in Presentable(issued) :
       LET r == [Idle EXCEPT !.op = "refresh", !.bearer = {refreshToken},
                             !.pre = PreOf({refreshToken})]
           id == refreshToken.userId
       IN reqs' = [reqs EXCEPT ![s] =
            IF ~jwtSecret \/ ~verifyToken(refreshToken, now)
            THEN Done(r, RefreshInvalid)
            ELSE IF ~RefreshPurpose(refreshToken)
            THEN Done(r, InvalidTokenType)
            ELSE IF id \notin DOMAIN users \/ users[id].deletedAt # {}
            THEN Done(r, RefreshUserNotFound)
            ELSE [r EXCEPT !.pc = "refresh_session", !.uid = id,
                           !.pair = generateTokenPair(id, users[id].email, users[id].type, now),
                           !.sessExp = now + SESSION_TTL]]
  /\ UNCHANGED <<assets, assetCategories, now, ticks, jwtSecret, users, sessions, passwordResets,
                 issued, loggedOut, invalidated, consumed>>

\* insert the session of the new access token and answer with the pair; the
\* catch block turns a failed insert into the 401 of a bad refresh token
RefreshSession(s) ==
  LET r == reqs[s] IN
  /\ r.pc = "refresh_session"
  /\ IF ~SessionsTokenUnique(RefreshSessionRow(r.uid, r.pair, r.sessExp).token)
     THEN /\ reqs' = [reqs EXCEPT ![s] = Done(r, RefreshInvalid)]
          /\ UNCHANGED <<sessions, issued>>
     ELSE /\ sessions' = sessions \cup {RefreshSessionRow(r.uid, r.pair, r.sessExp)}
          /\ reqs' = [reqs EXCEPT ![s] =
               Done(r, [Resp(200, "") EXCEPT
                          !.tokens = {r.pair.accessToken, r.pair.refreshToken}])]
          /\ issued' = issued \cup {r.pair.accessToken, r.pair.refreshToken}
  /\ UNCHANGED <<assets, assetCategories, now, ticks, jwtSecret, users, passwordResets, nreq,
                 loggedOut, invalidated, consumed>>

\* ---- GET /me ----
\* the route with a built-in secret used when JWT_SECRET is not configured
meRoute_DefaultSecret(bearer) ==
  IF bearer = {} THEN AuthenticationRequired
  ELSE LET payload == CHOOSE t \in bearer : TRUE IN
       IF ~verifyToken(payload, now) THEN InvalidOrExpiredToken
       ELSE IF payload.tokenType # "access" THEN InvalidTokenType
       ELSE IF payload.userId \notin DOMAIN users THEN Resp(404, "User not found")
       ELSE [Resp(200, "") EXCEPT !.user = payload.userId]

meRoute(bearer) ==
  IF bearer = {} THEN AuthenticationRequired
  ELSE LET payload == CHOOSE t \in bearer : TRUE IN
       IF ~jwtSecret THEN InvalidOrExpiredToken
       ELSE IF ~verifyToken(payload, now) THEN InvalidOrExpiredToken
       ELSE IF payload.tokenType # "access" THEN InvalidTokenType
       ELSE IF payload.userId \notin DOMAIN users THEN Resp(404, "User not found")
       ELSE [Resp(200, "") EXCEPT !.user = payload.userId]

Me(s) ==
  /\ Accept(s)
  /\ nreq' = nreq + 1
  /\ \E authHeader \in Headers(issued) :
       LET bearer == extractTokenFromHeader(authHeader) IN
       reqs' = [reqs EXCEPT ![s] =
         Done([Idle EXCEPT !.op = "me", !.bearer = bearer, !.pre = PreOf(bearer)],
              meRoute(bearer))]
  /\ UNCHANGED <<assets, assetCategories, now, ticks, jwtSecret, users, sessions, passwordResets,
                 issued, loggedOut, invalidated, consumed>>

\* ---- POST /password-reset-request ----
ResetRequestGeneric ==
  Resp(200, "If the email exists, a password reset link has been sent")

\* select the account by email; without one, the generic answer
ResetRequestSelect(s) ==
  /\ Accept(s)
  /\ nreq' = nreq + 1
  /\ \E email \in Emails :
       LET r == [Idle EXCEPT !.op = "resetRequest", !.email = email,
                             !.case = IF UserByEmail(email) = {} THEN "absent" ELSE "exists"]
           user == UserByEmail(email)
       IN reqs' = [reqs EXCEPT ![s] =
            IF user = {}
            THEN Done(r, ResetRequestGeneric)
            ELSE [r EXCEPT !.pc = "rr_insert", !.uid = CHOOSE i \in user : TRUE,
                           !.sessExp = now + RESET_TTL]]
  /\ UNCHANGED <<assets, assetCategories, now, ticks, jwtSecret, users, sessions, passwordResets,
                 issued, loggedOut, invalidated, consumed>>

\* insert the ticket (a fresh random token) and answer
ResetRequestInsert(s) ==
  LET r == reqs[s]
      resetToken == Len(passwordResets) + 1
  IN
  /\ r.pc = "rr_insert"
  /\ passwordResets' = Append(passwordResets,
       [userId |-> r.uid, token |-> resetToken, expiresAt |-> r.sessExp, usedAt |-> {}])
  /\ reqs' = [reqs EXCEPT ![s] =
       Done(r, [ResetRequestGeneric EXCEPT !.resetToken = resetToken])]
  /\ UNCHANGED <<assets, assetCategories, now, ticks, jwtSecret, users, sessions, nreq,
                 issued, loggedOut, invalidated, consumed>>

\* ---- POST /password-reset ----
InvalidOrExpiredResetToken == Resp(400, "Invalid or expired reset token")

\* the rows the select returns: token matches and expires_at > now
ResetRequestRows(token) ==
  {i \in DOMAIN passwordResets :
     passwordResets[i].token = token /\ passwordResets[i].expiresAt > now}

\* the check of the selected row without the test of used_at
ResetTicketUsable_NoUsedAt(token) == ResetRequestRows(token) # {}

\* the handler goes on to the writes only with a row whose used_at is null
ResetTicketUsable(token) ==
  /\ ResetRequestRows(token) # {}
  /\ passwordResets[CHOOSE i \in ResetRequestRows(token) : TRUE].usedAt = {}

\* token 0 stands for a string that is no ticket's token
ResetSelect(s) ==
  /\ Accept(s)
  /\ nreq' = nreq + 1
  /\ \E token \in 0..Len(passwordResets), newPassword \in Passwords :
       LET r == [Idle EXCEPT !.op = "reset", !.ticket = token, !.password = newPassword,
                             !.pre = {k \in {"consumed"} : token \in consumed}]
       IN reqs' = [reqs EXCEPT ![s] =
            IF ~ResetTicketUsable(token)
            THEN Done(r, InvalidOrExpiredResetToken)
            ELSE LET id == CHOOSE i \in ResetRequestRows(token) : TRUE IN
                 [r EXCEPT !.pc = "reset_update", !.rid = id,
                           !.uid = passwordResets[id].userId,
                           !.hash = hashPassword(newPassword)]]
  /\ UNCHANGED <<assets, assetCategories, now, ticks, jwtSecret, users, sessions, passwordResets,
                 issued, loggedOut, invalidated, consumed>>

\* update users set password_hash
ResetUpdate(s) ==
  LET r == reqs[s] IN
  /\ r.pc = "reset_update"
  /\ users' = [users EXCEPT ![r.uid].passwordHash = r.hash]
  /\ reqs' = [reqs EXCEPT ![s].pc = "reset_mark"]
  /\ UNCHANGED <<assets, assetCategories, now, ticks, jwtSecret, sessions, passwordResets, nreq,
                 issued, loggedOut, invalidated, consumed>>

\* update password_resets set used_at where id = the row read earlier
ResetMark(s) ==
  LET r == reqs[s] IN
  /\ r.pc = "reset_mark"
  /\ passwordResets' = [passwordResets EXCEPT ![r.rid].usedAt = {now}]
  /\ reqs' = [reqs EXCEPT ![s].pc = "reset_sessions"]
  /\ UNCHANGED <<assets, assetCategories, now, ticks, jwtSecret, users, sessions, nreq,
                 issued, loggedOut, invalidated, consumed>>

\* the delete statement without its where clause
ResetDeleteSessions_All(rows, userId) == {}

\* delete from sessions where user_id = the account of the ticket
ResetDeleteSessions(rows, userId) == {row \in rows : row.userId # userId}

\* delete every session of the account and answer 200
ResetSessions(s) ==
  LET r == reqs[s] IN
  /\ r.pc = "reset_sessions"
  /\ sessions' = ResetDeleteSessions(sessions, r.uid)
  /\ reqs' = [reqs EXCEPT ![s] = Done(r, Resp(200, "Password reset successful"))]
  /\ consumed' = consumed \cup {r.ticket}
  /\ invalidated' = invalidated \cup {t \in issued : t.userId = r.uid}
  /\ UNCHANGED <<assets, assetCategories, now, ticks, jwtSecret, users, passwordResets, nreq, issued, loggedOut>>

\* one of the three write statements throws (the store is down): the catch
\* block answers 500; what the statements before it wrote stays. case keeps the
\* statement that failed
ResetFails(s) ==
  LET r == reqs[s] IN
  /\ r.pc \in {"reset_update", "reset_mark", "reset_sessions"}
  /\ reqs' = [reqs EXCEPT ![s] = Done([r EXCEPT !.case = r.pc], Resp(500, "Internal server error"))]
  /\ UNCHANGED <<assets, assetCategories, now, ticks, jwtSecret, users, sessions, passwordResets, nreq,
                 issued, loggedOut, invalidated, consumed>>

\* ---- the database after the seeder has run (npm run db:seed) ----
SeedUsers ==
  <<[email |-> "bob@x.io", passwordHash |-> hashPassword("Passw0rd!"),
     type |-> "professional", deletedAt |-> {}, lastLoginAt |-> {}]>>

SeedCategories ==
  <<[slug |-> "electronics", parentId |-> 0], [slug |-> "vehicles", parentId |-> 0]>>

SeedAssets ==
  <<[userId |-> 1, categoryId |-> 1, name |-> "Laptop", images |-> 0, deletedAt |-> {}]>>

InitSeeded ==
  /\ now = 0
  /\ ticks = 0
  /\ jwtSecret = TRUE
  /\ users = SeedUsers
  /\ sessions = {}
  /\ passwordResets = <<>>
  /\ reqs = [s \in Slots |-> Idle]
  /\ nreq = 0
  /\ issued = {}
  /\ loggedOut = {}
  /\ invalidated = {}
  /\ consumed = {}
  /\ assets = SeedAssets
  /\ assetCategories = SeedCategories

\* ---- routes/assets.ts ----
\* the JavaScript value undefined; row ids are the positive numbers
undefined == 0

\* reading a property of a JavaScript object: undefined when it has none
Field(object, key) == IF key \in DOMAIN object THEN object[key] ELSE undefined

\* the identity authMiddleware attaches with c.set('user', payload)
UserOf(bearer) == CHOOSE t \in bearer : TRUE

\* a path parameter that is no uuid, such as 'stats'; 0 is a uuid of no row
NotUuid == 0 - 1

AssetNames == {"Laptop", "Bike"}

AssetNotFound == Resp(404, "Asset not found")

AccessDenied == Resp(403, "Access denied")

\* the rows of select ... where id = assetId and deleted_at is null
LiveAsset(id) == {i \in DOMAIN assets : i = id /\ assets[i].deletedAt = {}}

\* the rows of select ... where id = assetId
AnyAsset(id) == {i \in DOMAIN assets : i = id}

\* the comparison of the handlers with the owner of the row accepted as anyone
IsOwner_Anyone(asset, user) == TRUE

\* the comparison of the handlers: asset.userId !== user.id denies
IsOwner(asset, user) == asset.userId = Field(user, "id")

\* the row as the responses carry it
AssetData(i) == [id |-> i, userId |-> assets[i].userId, name |-> assets[i].name,
                 images |-> assets[i].images, deletedAt |-> assets[i].deletedAt]

\* GET /assets: the live rows whose user_id equals user.id
ListAssets(s) ==
  /\ Accept(s)
  /\ nreq' = nreq + 1
  /\ \E authHeader \in Headers(issued) :
       LET bearer == extractTokenFromHeader(authHeader)
           gate == authMiddleware(bearer)
           r == [Idle EXCEPT !.op = "listAssets", !.bearer = bearer]
       IN reqs' = [reqs EXCEPT ![s] =
            IF gate.status # 200 THEN Done(r, gate)
            ELSE Done(r, [Resp(200, "") EXCEPT !.data =
                   {AssetData(i) : i \in {j \in DOMAIN assets :
                       /\ assets[j].userId = Field(UserOf(bearer), "id")
                       /\ assets[j].deletedAt = {}}}])]
  /\ UNCHANGED <<now, ticks, jwtSecret, users, sessions, passwordResets,
                 issued, loggedOut, invalidated, consumed, assets, assetCategories>>

\* the handler of GET /assets/:id for the path parameter id
getAssetRoute(id, user) ==
  IF id = NotUuid THEN Resp(500, "Failed to fetch asset")
  ELSE IF LiveAsset(id) = {} THEN AssetNotFound
  ELSE IF ~IsOwner(assets[id], user) THEN AccessDenied
  ELSE [Resp(200, "") EXCEPT !.data = {AssetData(id)}]

\* GET /assets/:id
GetAsset(s) ==
  /\ Accept(s)
  /\ nreq' = nreq + 1
  /\ \E authHeader \in Headers(issued), id \in 0..Len(assets) :
       LET bearer == extractTokenFromHeader(authHeader)
           gate == authMiddleware(bearer)
           r == [Idle EXCEPT !.op = "getAsset", !.bearer = bearer, !.id = id]
       IN reqs' = [reqs EXCEPT ![s] =
            IF gate.status # 200 THEN Done(r, gate)
            ELSE Done(r, getAssetRoute(id, UserOf(bearer)))]
  /\ UNCHANGED <<now, ticks, jwtSecret, users, sessions, passwordResets,
                 issued, loggedOut, invalidated, consumed, assets, assetCategories>>

\* GET /assets/stats: all routes are registered on one Hono instance and
\* GET '/:id' is registered before GET '/stats', so the request is handled by
\* getAssetRoute with id = 'stats'
GetAssetStats(s) ==
  /\ Accept(s)
  /\ nreq' = nreq + 1
  /\ \E authHeader \in Headers(issued) :
       LET bearer == extractTokenFromHeader(authHeader)
           gate == authMiddleware(bearer)
           r == [Idle EXCEPT !.op = "getAssetStats", !.bearer = bearer, !.id = NotUuid]
       IN reqs' = [reqs EXCEPT ![s] =
            IF gate.status # 200 THEN Done(r, gate)
            ELSE Done(r, getAssetRoute(NotUuid, UserOf(bearer)))]
  /\ UNCHANGED <<now, ticks, jwtSecret, users, sessions, passwordResets,
                 issued, loggedOut, invalidated, consumed, assets, assetCategories>>

\* POST /assets: select the category, then prepare the insert with
\* userId: user.id
CreateAsset(s) ==
  /\ Accept(s)
  /\ nreq' = nreq + 1
  /\ \E authHeader \in Headers(issued), categoryId \in 0..Len(assetCategories),
        name \in AssetNames :
       LET bearer == extractTokenFromHeader(authHeader)
           gate == authMiddleware(bearer)
           r == [Idle EXCEPT !.op = "createAsset", !.bearer = bearer, !.id = categoryId]
       IN reqs' = [reqs EXCEPT ![s] =
            IF gate.status # 200 THEN Done(r, gate)
            ELSE IF categoryId \notin DOMAIN assetCategories
            THEN Done(r, Resp(400, "Invalid category ID"))
            ELSE [r EXCEPT !.pc = "asset_write", !.uid = UserOf(bearer).userId,
                   !.write = <<"insert",
                     [userId |-> Field(UserOf(bearer), "id"), categoryId |-> categoryId,
                      name |-> name, images |-> 0, deletedAt |-> {}]>>]]
  /\ UNCHANGED <<now, ticks, jwtSecret, users, sessions, passwordResets,
                 issued, loggedOut, invalidated, consumed, assets, assetCategories>>

\* PUT /assets/:id: select the row by id alone, compare the owner, then update
UpdateAsset(s) ==
  /\ Accept(s)
  /\ nreq' = nreq + 1
  /\ \E authHeader \in Headers(issued), id \in 0..Len(assets), name \in AssetNames :
       LET bearer == extractTokenFromHeader(authHeader)
           gate == authMiddleware(bearer)
           r == [Idle EXCEPT !.op = "updateAsset", !.bearer = bearer, !.id = id]
       IN reqs' = [reqs EXCEPT ![s] =
            IF gate.status # 200 THEN Done(r, gate)
            ELSE IF AnyAsset(id) = {} THEN Done(r, AssetNotFound)
            ELSE IF ~IsOwner(assets[id], UserOf(bearer)) THEN Done(r, AccessDenied)
            ELSE [r EXCEPT !.pc = "asset_write", !.uid = UserOf(bearer).userId,
                           !.write = <<"update", name>>]]
  /\ UNCHANGED <<now, ticks, jwtSecret, users, sessions, passwordResets,
                 issued, loggedOut, invalidated, consumed, assets, assetCategories>>

\* DELETE /assets/:id: select the row by id alone, compare the owner, then set
\* deleted_at
DeleteAsset(s) ==
  /\ Accept(s)
  /\ nreq' = nreq + 1
  /\ \E authHeader \in Headers(issued), id \in 0..Len(assets) :
       LET bearer == extractTokenFromHeader(authHeader)
           gate == authMiddleware(bearer)
           r == [Idle EXCEPT !.op = "deleteAsset", !.bearer = bearer, !.id = id]
       IN reqs' = [reqs EXCEPT ![s] =
            IF gate.status # 200 THEN Done(r, gate)
            ELSE IF AnyAsset(id) = {} THEN Done(r, AssetNotFound)
            ELSE IF ~IsOwner(assets[id], UserOf(bearer)) THEN Done(r, AccessDenied)
            ELSE [r EXCEPT !.pc = "asset_write", !.uid = UserOf(bearer).userId,
                           !.write = <<"delete", "">>]]
  /\ UNCHANGED <<now, ticks, jwtSecret, users, sessions, passwordResets,
                 issued, loggedOut, invalidated, consumed, assets, assetCategories>>

\* POST /assets/:id/images: select the live row, compare the owner, then append
UploadAssetImages(s) ==
  /\ Accept(s)
  /\ nreq' = nreq + 1
  /\ \E authHeader \in Headers(issued), id \in 0..Len(assets) :
       LET bearer == extractTokenFromHeader(authHeader)
           gate == authMiddleware(bearer)
           r == [Idle EXCEPT !.op = "uploadAssetImages", !.bearer = bearer, !.id = id]
       IN reqs' = [reqs EXCEPT ![s] =
            IF gate.status # 200 THEN Done(r, gate)
            ELSE IF LiveAsset(id) = {} THEN Done(r, AssetNotFound)
            ELSE IF ~IsOwner(assets[id], UserOf(bearer)) THEN Done(r, AccessDenied)
            ELSE [r EXCEPT !.pc = "asset_write", !.uid = UserOf(bearer).userId,
                           !.write = <<"images", assets[id].images + 1>>]]
  /\ UNCHANGED <<now, ticks, jwtSecret, users, sessions, passwordResets,
                 issued, loggedOut, invalidated, consumed, assets, assetCategories>>

\* the write statement of the handler and its answer; assets.user_id is NOT NULL
AssetWrite(s) ==
  LET r == reqs[s]
      kind == r.write[1]
      arg == r.write[2]
  IN
  /\ r.pc = "asset_write"
  /\ IF kind = "insert"
     THEN IF arg.userId = undefined
          THEN /\ assets' = assets
               /\ reqs' = [reqs EXCEPT ![s] = Done(r, Resp(500, "Failed to create asset"))]
          ELSE /\ assets' = Append(assets, arg)
               /\ reqs' = [reqs EXCEPT ![s] =
                    Done([r EXCEPT !.id = Len(assets) + 1],
                         [Resp(201, "Asset created successfully") EXCEPT !.data =
                            {[id |-> Len(assets) + 1, userId |-> arg.userId,
                              name |-> arg.name, images |-> arg.images,
                              deletedAt |-> arg.deletedAt]}])]
     ELSE /\ assets' = [assets EXCEPT ![r.id] =
               IF kind = "update" THEN [@ EXCEPT !.name = arg]
               ELSE IF kind = "delete" THEN [@ EXCEPT !.deletedAt = {now}]
               ELSE [@ EXCEPT !.images = arg]]
          /\ reqs' = [reqs EXCEPT ![s] = Done(r, Resp(200,
               IF kind = "update" THEN "Asset updated successfully"
               ELSE IF kind = "delete" THEN "Asset deleted successfully"
               ELSE "Images uploaded successfully"))]
  /\ UNCHANGED <<now, ticks, jwtSecret, users, sessions, passwordResets, nreq,
                 issued, loggedOut, invalidated, consumed, assetCategories>>

\* deleted_at of an asset set outside these handlers
SoftDeleteAsset ==
  /\ \E id \in DOMAIN assets :
       /\ assets[id].deletedAt = {}
       /\ assets' = [assets EXCEPT ![id].deletedAt = {now}]
  /\ UNCHANGED <<now, ticks, jwtSecret, users, sessions, passwordResets, reqs, nreq,
                 issued, loggedOut, invalidated, consumed, assetCategories>>

Assets ==
  \E s \in Slots :
    \/ ListAssets(s) \/ GetAsset(s) \/ GetAssetStats(s) \/ CreateAsset(s)
    \/ UpdateAsset(s) \/ DeleteAsset(s) \/ UploadAssetImages(s) \/ AssetWrite(s)

\* ---- routes/categories.ts ----
Slugs == {"electronics", "books"}

\* requireUserType('professional') after authMiddleware
requireUserType(bearer, requiredType) ==
  LET gate == authMiddleware(bearer)
  IN IF gate.status # 200 THEN gate
     ELSE IF UserOf(bearer).type # requiredType
     THEN Resp(403, "This endpoint requires professional account type")
     ELSE gate

BySlug(slug) == {i \in DOMAIN assetCategories : assetCategories[i].slug = slug}

\* POST /categories: slug taken, parent given and missing, then the insert;
\* parentId 0 is a body without parentId, Len + 1 a uuid of no row
CreateCategory(s) ==
  /\ Accept(s)
  /\ nreq' = nreq + 1
  /\ \E authHeader \in Headers(issued), slug \in Slugs,
        parentId \in 0..(Len(assetCategories) + 1) :
       LET bearer == extractTokenFromHeader(authHeader)
           gate == requireUserType(bearer, "professional")
           r == [Idle EXCEPT !.op = "createCategory", !.bearer = bearer]
       IN reqs' = [reqs EXCEPT ![s] =
            IF gate.status # 200 THEN Done(r, gate)
            ELSE IF BySlug(slug) # {}
            THEN Done(r, Resp(409, "Category with this slug already exists"))
            ELSE IF parentId # 0 /\ parentId \notin DOMAIN assetCategories
            THEN Done(r, Resp(400, "Parent category not found"))
            ELSE [r EXCEPT !.pc = "cat_write",
                   !.write = <<"insert", [slug |-> slug, parentId |-> parentId]>>]]
  /\ UNCHANGED <<now, ticks, jwtSecret, users, sessions, passwordResets,
                 issued, loggedOut, invalidated, consumed, assets, assetCategories>>

\* the check of updateCategoryRoute on the new parent: not the category itself
ParentAllowed(categoryId, parentId) == parentId # categoryId

\* PUT /categories/:id with a body that holds at most parentId: category
\* missing, parent missing, parent the category itself, then the update
UpdateCategory(s) ==
  /\ Accept(s)
  /\ nreq' = nreq + 1
  /\ \E authHeader \in Headers(issued), categoryId \in 1..(Len(assetCategories) + 1),
        parentId \in 0..(Len(assetCategories) + 1) :
       LET bearer == extractTokenFromHeader(authHeader)
           gate == requireUserType(bearer, "professional")
           r == [Idle EXCEPT !.op = "updateCategory", !.bearer = bearer, !.id = categoryId]
       IN reqs' = [reqs EXCEPT ![s] =
            IF gate.status # 200 THEN Done(r, gate)
            ELSE IF categoryId \notin DOMAIN assetCategories
            THEN Done(r, Resp(404, "Category not found"))
            ELSE IF parentId # 0 /\ parentId \notin DOMAIN assetCategories
            THEN Done(r, Resp(400, "Parent category not found"))
            ELSE IF parentId # 0 /\ ~ParentAllowed(categoryId, parentId)
            THEN Done(r, Resp(400, "Category cannot be its own parent"))
            ELSE [r EXCEPT !.pc = "cat_write", !.write = <<"update", parentId>>]]
  /\ UNCHANGED <<now, ticks, jwtSecret, users, sessions, passwordResets,
                 issued, loggedOut, invalidated, consumed, assets, assetCategories>>

\* the write statement of the handler and its answer; asset_categories.slug is
\* unique
CategoryWrite(s) ==
  LET r == reqs[s]
      kind == r.write[1]
      arg == r.write[2]
  IN
  /\ r.pc = "cat_write"
  /\ IF kind = "insert"
     THEN IF BySlug(arg.slug) # {}
          THEN /\ assetCategories' = assetCategories
               /\ reqs' = [reqs EXCEPT ![s] = Done(r, Resp(500, "Failed to create category"))]
          ELSE /\ assetCategories' = Append(assetCategories, arg)
               /\ reqs' = [reqs EXCEPT ![s] =
                    Done([r EXCEPT !.id = Len(assetCategories) + 1],
                         Resp(201, "Category created successfully"))]
     ELSE /\ assetCategories' =
               IF arg = 0 THEN assetCategories
               ELSE [assetCategories EXCEPT ![r.id].parentId = arg]
          /\ reqs' = [reqs EXCEPT ![s] = Done(r, Resp(200, "Category updated successfully"))]
  /\ UNCHANGED <<now, ticks, jwtSecret, users, sessions, passwordResets, nreq,
                 issued, loggedOut, invalidated, consumed, assets>>

Categories == \E s \in Slots : CreateCategory(s) \/ UpdateCategory(s) \/ CategoryWrite(s)

\* ---- the environment of the server process ----
\* the server is restarted, with no request under way, without JWT_SECRET
UnsetSecret ==
  /\ jwtSecret
  /\ \A s \in Slots : Free(s)
  /\ jwtSecret' = FALSE
  /\ UNCHANGED <<assets, assetCategories, now, ticks, users, sessions, passwordResets, reqs, nreq,
                 issued, loggedOut, invalidated, consumed>>

\* ---- the soft-delete marker of an account, set outside the request handlers ----
SoftDeleteUser ==
  /\ \E id \in DOMAIN users :
       /\ users[id].deletedAt = {}
       /\ users' = [users EXCEPT ![id].deletedAt = {now}]
  /\ UNCHANGED <<assets, assetCategories, now, ticks, jwtSecret, sessions, passwordResets, reqs, nreq,
                 issued, loggedOut, invalidated, consumed>>

Register == \E s \in Slots : RegisterSelect(s) \/ RegisterInsert(s) \/ RegisterSession(s)

Login == \E s \in Slots : LoginSelect(s) \/ LoginSession(s) \/ LoginUpdate(s)

ResetRequest == \E s \in Slots : ResetRequestSelect(s) \/ ResetRequestInsert(s)

Reset == \E s \in Slots : ResetSelect(s) \/ ResetUpdate(s) \/ ResetMark(s) \/ ResetSessions(s)

Refresh == \E s \in Slots : RefreshSelect(s) \/ RefreshSession(s)

Next ==
  \/ Tick
  \/ Register
  \/ Login
  \/ \E s \in Slots : Logout(s)
  \/ ResetRequest
  \/ Reset
  \/ \E s \in Slots : Gate(s)
  \/ \E s \in Slots : Me(s)
  \/ \E s \in Slots : OptionalGate(s)
  \/ \E s \in Slots : SessionGate(s)
  \/ Refresh
  \/ \E s \in Slots : LoginUpdateFails(s)
  \/ TickLong
  \/ UnsetSecret
  \/ Assets
  \/ SoftDeleteAsset
  \/ Categories
  \/ \E s \in Slots : ResetFails(s)
  \/ SoftDeleteUser

Spec == Init /\ [][Next]_vars

\* ---- the system under the traffic of one scenario ----
NextRegister == Tick \/ Register

SpecRegister == Init /\ [][NextRegister]_vars

NextLogin == Tick \/ Register \/ Login \/ SoftDeleteUser

SpecLogin == Init /\ [][NextLogin]_vars

NextSession == Tick \/ Register \/ (\E s \in Slots : Logout(s)) \/ (\E s \in Slots : Gate(s))
                 \/ (\E s \in Slots : Me(s))

SpecSession == Init /\ [][NextSession]_vars

NextReset == Tick \/ Register \/ ResetRequest \/ Reset \/ (\E s \in Slots : Gate(s))

SpecReset == Init /\ [][NextReset]_vars

NextPurpose ==
  Tick \/ Register \/ Refresh \/ (\E s \in Slots : Gate(s)) \/ (\E s \in Slots : Me(s))
    \/ (\E s \in Slots : OptionalGate(s))

SpecPurpose == Init /\ [][NextPurpose]_vars

NextGate ==
  Tick \/ Register \/ SoftDeleteUser \/ (\E s \in Slots : Gate(s))
    \/ (\E s \in Slots : OptionalGate(s))

SpecGate == Init /\ [][NextGate]_vars

NextResetLogin == Tick \/ Register \/ ResetRequest \/ Reset \/ Login

SpecResetLogin == Init /\ [][NextResetLogin]_vars

NextSessionStore ==
  Tick \/ Register \/ (\E s \in Slots : Logout(s)) \/ (\E s \in Slots : SessionGate(s))

SpecSessionStore == Init /\ [][NextSessionStore]_vars

NextSessionLife ==
  Tick \/ Register \/ Login \/ (\E s \in Slots : LoginUpdateFails(s))
    \/ (\E s \in Slots : Logout(s)) \/ Refresh \/ ResetRequest \/ Reset

SpecSessionLife == Init /\ [][NextSessionLife]_vars

NextExpiry == Tick \/ TickLong \/ Register \/ Refresh \/ (\E s \in Slots : Gate(s))

SpecExpiry == Init /\ [][NextExpiry]_vars

NextNoSecret ==
  Tick \/ UnsetSecret \/ Register \/ Login \/ Refresh \/ (\E s \in Slots : Gate(s))
    \/ (\E s \in Slots : Me(s))

SpecNoSecret == Init /\ [][NextNoSecret]_vars

NextAssets == Register \/ Login \/ Assets \/ SoftDeleteAsset

SpecAssets == InitSeeded /\ [][NextAssets]_vars

NextCategories == Register \/ Login \/ Categories

SpecCategories == InitSeeded /\ [][NextCategories]_vars

NextResetStore ==
  Tick \/ Register \/ ResetRequest \/ Reset \/ (\E s \in Slots : ResetFails(s))

SpecResetStore == Init /\ [][NextResetStore]_vars

NextMe ==
  Tick \/ Register \/ SoftDeleteUser \/ (\E s \in Slots : Me(s)) \/ (\E s \in Slots : Gate(s))

SpecMe == Init /\ [][NextMe]_vars

\* ---- properties ----
Finished(s, op) == reqs[s].op = op /\ reqs[s].pc = "done"

\* C1: once logout has answered success for bearer token T, every later request
\* presenting T is answered 401 by authMiddleware and by GET /auth/me.
C1_RejectedAfterLogout ==
  \A s \in Slots :
    (Finished(s, "gate") \/ Finished(s, "me")) /\ "loggedOut" \in reqs[s].pre
      => reqs[s].resp.status = 401

\* C2: once a password-reset of account A has answered success, authMiddleware
\* answers 401 to every later request presenting a token issued to A before it.
C2_RejectedAfterReset ==
  \A s \in Slots :
    Finished(s, "gate") /\ "invalidated" \in reqs[s].pre => reqs[s].resp.status = 401

\* the task has written, or is past writing, the account's password
ResetChanged(s) ==
  /\ reqs[s].op = "reset"
  /\ \/ reqs[s].pc \in {"reset_mark", "reset_sessions"}
     \/ reqs[s].pc = "done" /\ reqs[s].resp.status = 200

\* C3: of two password-reset requests that present the same ticket, at most one
\* changes the password and succeeds.
C3_OneResetWins ==
  \A s1, s2 \in Slots :
    s1 # s2 /\ reqs[s1].ticket = reqs[s2].ticket => ~(ResetChanged(s1) /\ ResetChanged(s2))

\* the step in which slot s takes a password-reset request and runs its select
ResetArrives(s) == Accept(s) /\ nreq' = nreq + 1 /\ reqs'[s].op = "reset"

\* C4: a password-reset goes on to its writes only if its token matches a ticket
\* that expires strictly later than now and whose used-at is null; a request that
\* arrives after a reset with the same ticket has succeeded is answered
\* 400 'Invalid or expired reset token' and leaves the store unchanged.
C4_TicketUsedOnce ==
  [][\A s \in Slots : ResetArrives(s) =>
       /\ reqs'[s].pc # "done" =>
            \E i \in DOMAIN passwordResets :
              /\ passwordResets[i].token = reqs'[s].ticket
              /\ passwordResets[i].expiresAt > now
              /\ passwordResets[i].usedAt = {}
       /\ reqs'[s].pc = "done" => reqs'[s].resp.status = 400
       /\ reqs'[s].ticket \in consumed =>
            /\ reqs'[s].pc = "done"
            /\ reqs'[s].resp = Resp(400, "Invalid or expired reset token")
            /\ UNCHANGED store]_vars

\* a second reset with a consumed ticket was refused before the ticket's expiry
C4_Witness ==
  \E s \in Slots :
    /\ Finished(s, "reset")
    /\ "consumed" \in reqs[s].pre
    /\ reqs[s].resp.status = 400
    /\ passwordResets[reqs[s].ticket].expiresAt > now

\* C5: two logins of the same account with correct credentials in the same clock
\* second both answer 200: if one has, the other has.
C5_BothLoginsSucceed ==
  \A s1, s2 \in Slots :
    /\ s1 # s2
    /\ Finished(s1, "login") /\ Finished(s2, "login")
    /\ reqs[s1].case = "ok" /\ reqs[s2].case = "ok"
    /\ reqs[s1].pair = reqs[s2].pair
    /\ reqs[s1].resp.status = 200
    => reqs[s2].resp.status = 200

\* C6: a login with the credentials of a registered, live account answers 200
\* with an access token of that account.
C6_LoginAfterRegister ==
  \A s \in Slots :
    Finished(s, "login") /\ reqs[s].case = "ok" =>
      /\ reqs[s].resp.status = 200
      /\ \E t \in reqs[s].resp.tokens : t.tokenType = "access" /\ t.userId = reqs[s].uid

LoginFailed(s) ==
  Finished(s, "login") /\ reqs[s].case \in {"absent", "deleted", "wrongpw"}

\* C7: login answers the same status and body for a wrong password, for an email
\* of no account and for the email of a soft-deleted account.
C7_LoginFailureUniform ==
  \A s1, s2 \in Slots :
    LoginFailed(s1) /\ LoginFailed(s2) =>
      /\ reqs[s1].resp = reqs[s2].resp
      /\ reqs[s1].resp = Resp(401, "Invalid email or password")

\* two of the three failure cases have been answered
C7_Witness ==
  \E s1, s2 \in Slots :
    /\ LoginFailed(s1) /\ LoginFailed(s2)
    /\ reqs[s1].case = "deleted"
    /\ reqs[s2].case = "wrongpw"

\* C8: password-reset-request answers the same status and body whether or not
\* the email belongs to an account.
C8_ResetRequestUniform ==
  \A s \in Slots :
    Finished(s, "resetRequest") =>
      reqs[s].resp = Resp(200, "If the email exists, a password reset link has been sent")

\* C9: a register request that meets an account with its email is answered 409
\* and creates no account and no tokens.
C9_DuplicateIsConflict ==
  \A s \in Slots :
    Finished(s, "register") /\ reqs[s].case = "taken" =>
      /\ reqs[s].resp.status = 409
      /\ reqs[s].uid = 0
      /\ reqs[s].resp.tokens = {}

\* C10: no two rows of users have the same email.
C10_UniqueEmail ==
  \A i, j \in DOMAIN users : i # j => users[i].email # users[j].email

\* a register that raced another for the same email has lost at the insert
C10_Witness ==
  \E s \in Slots :
    /\ Finished(s, "register")
    /\ reqs[s].case = "taken"
    /\ reqs[s].resp.status = 500
    /\ UserByEmail(reqs[s].email) # {}
\* C11: token purposes are exclusive. authMiddleware, optionalAuthMiddleware and
\* GET /auth/me never attach an identity or return a profile for a refresh token,
\* and POST /auth/refresh-token never signs a pair or reaches its session insert
\* for an access token.
C11_PurposesExclusive ==
  \A s \in Slots : \A t \in reqs[s].bearer :
    /\ reqs[s].op \in {"gate", "optional", "me"} /\ reqs[s].pc = "done"
         /\ t.tokenType = "refresh"
         => reqs[s].resp.user = 0 /\ reqs[s].resp.tokens = {}
    /\ reqs[s].op = "refresh" /\ t.tokenType = "access"
         => /\ reqs[s].pc = "done"
            /\ reqs[s].pair = NoPair
            /\ reqs[s].resp.status = 401
            /\ reqs[s].resp.tokens = {}

\* a verifying refresh token of a live account was refused by the gate, and a
\* verifying access token of a live account was refused by the refresh route
C11_Witness ==
  \E s, q \in Slots : \E t \in reqs[s].bearer, a \in reqs[q].bearer :
    /\ Finished(s, "gate") /\ t.tokenType = "refresh" /\ t.sig = "valid"
    /\ reqs[s].resp = InvalidTokenType
    /\ Finished(q, "refresh") /\ a.tokenType = "access" /\ a.sig = "valid"
    /\ reqs[q].resp = InvalidTokenType
\* a request of the given kind is accepted by slot s in this step
Arrives(s, op) == Accept(s) /\ nreq' = nreq + 1 /\ reqs'[s].op = op

\* the token is signed by the server and has not expired
Verifies(t) == t.sig = "valid" /\ t.exp > now

\* the account of the token exists and is not soft-deleted
AccountLive(t) == t.userId \in DOMAIN users /\ users[t.userId].deletedAt = {}

\* C12: authMiddleware sets the identity and invokes the handler only if, in this
\* order, a bearer token is extracted, it verifies, its purpose is access, and its
\* account exists and is not soft-deleted; otherwise the request is answered 401
\* by the first check that fails, with no identity and the handler not invoked.
C12_GatePipeline ==
  [][\A s \in Slots : Arrives(s, "gate") =>
       LET b == reqs'[s].bearer
           resp == reqs'[s].resp
       IN IF b = {} THEN resp = AuthenticationRequired
          ELSE \A t \in b :
                 IF ~Verifies(t) THEN resp = InvalidOrExpiredToken
                 ELSE IF t.tokenType # "access" THEN resp = InvalidTokenType
                 ELSE IF ~AccountLive(t) THEN resp = AccountInactive
                 ELSE resp = Admitted(t.userId)]_vars

\* one request was admitted with its identity, and one presenting a verifying
\* access token of a soft-deleted account was refused
C12_Witness ==
  \E s, q \in Slots : \E t \in reqs[s].bearer, d \in reqs[q].bearer :
    /\ Finished(s, "gate") /\ reqs[s].resp = Admitted(t.userId)
    /\ Finished(q, "gate") /\ d.sig = "valid" /\ d.tokenType = "access"
    /\ reqs[q].resp = AccountInactive

\* C13: optionalAuthMiddleware attaches the identity exactly when authMiddleware
\* would admit the same request (the account exists and is not soft-deleted
\* included); otherwise it goes on with no identity, and it never aborts.
C13_OptionalMatchesGate ==
  [][\A s \in Slots : Arrives(s, "optional") =>
       LET b == reqs'[s].bearer
           resp == reqs'[s].resp
           admit == \E t \in b : Verifies(t) /\ t.tokenType = "access" /\ AccountLive(t)
       IN /\ resp.status = 200 /\ resp.message = "next"
          /\ admit => \A t \in b : resp.user = t.userId
          /\ ~admit => resp.user = 0]_vars

\* C14: when verification of the token fails in authMiddleware, the answer is the
\* same status and message whether the signature is bad, the token has expired
\* or the string is no token.
C14_VerifyFailureUniform ==
  [][\A s \in Slots : Arrives(s, "gate") =>
       \A t \in reqs'[s].bearer :
         (t.sig = "malformed" \/ t.sig = "forged" \/ t.exp <= now)
           => reqs'[s].resp = Resp(401, "Invalid or expired token")]_vars

\* a forged token and an expired token, each refused by the gate
C14_Witness ==
  \E s, q \in Slots : \E t \in reqs[s].bearer, x \in reqs[q].bearer :
    /\ Finished(s, "gate") /\ t.sig = "forged" /\ t.exp > now
    /\ Finished(q, "gate") /\ x.sig = "valid" /\ x.exp <= now
    /\ reqs[s].resp = reqs[q].resp /\ reqs[s].resp.status = 401
\* C15: logout always answers success: without an Authorization header, with a
\* header that is no bearer token, with a token that matches no session, and
\* when the delete statement fails; it removes at most the rows of the presented
\* token, and repeating it leaves the sessions table as one logout left it.
C15_LogoutAlwaysSucceeds ==
  [][\A s \in Slots : Arrives(s, "logout") =>
       LET b == reqs'[s].bearer
           failed == "deleteFailed" \in reqs'[s].pre
       IN /\ reqs'[s].resp.status = 200
          /\ b = {} \/ failed => sessions' = sessions
          /\ \A t \in b :
               /\ ~failed => sessions' = {row \in sessions : row.token # t}
               /\ (\A row \in sessions : row.token # t) => sessions' = sessions
               /\ ~failed => {row \in sessions' : row.token # t} = sessions']_vars

\* two logouts with one issued token, one that deleted and one whose delete
\* statement failed, both answered 200
C15_Witness ==
  \E s, q \in Slots : \E t \in reqs[s].bearer :
    /\ s # q /\ t \in issued /\ reqs[q].bearer = {t}
    /\ Finished(s, "logout") /\ reqs[s].resp = Resp(200, "Logout successful")
    /\ Finished(q, "logout") /\ "deleteFailed" \in reqs[q].pre
    /\ reqs[q].resp.status = 200
    /\ \A row \in sessions : row.token # t
C17_ResetRemovesOwnSessions ==
  [][\A s \in Slots :
       reqs[s].pc = "reset_sessions" /\ reqs'[s].pc = "done" /\ reqs'[s].resp.status = 200
       => LET A == passwordResets[reqs[s].ticket].userId IN
          /\ \A row \in sessions' : row.userId # A
          /\ {row \in sessions' : row.userId # A} = {row \in sessions : row.userId # A}]_vars

\* a reset has answered 200 for an account that had been issued tokens, no
\* session of it is left, and a session of another account is
C17_Witness ==
  \E s \in Slots :
    /\ Finished(s, "reset") /\ reqs[s].resp.status = 200
    /\ \E t \in invalidated : t.userId = reqs[s].uid
    /\ \A row \in sessions : row.userId # reqs[s].uid
    /\ \E row \in sessions : row.userId # reqs[s].uid
\* C18: after a successful password-reset of account A to the password P, a login
\* with A's email and a password other than P (the previous one) is rejected with
\* the generic 401 'Invalid email or password', and a login with P succeeds.
C18_LoginAfterReset ==
  \A s \in Slots :
    Finished(s, "login") /\ "afterReset" \in reqs[s].pre
      => /\ reqs[s].case = "wrongpw" => reqs[s].resp = Resp(401, "Invalid email or password")
         /\ reqs[s].case = "ok" => reqs[s].resp.status = 200
\* C19: sessionMiddleware admits a request and sets userId if and only if a
\* session row with the presented token exists and its stored expiry is strictly
\* later than now; an expired row is treated as absent and the lookup deletes
\* nothing.
C19_SessionLookup ==
  [][\A s \in Slots : Arrives(s, "session") =>
       LET b == reqs'[s].bearer
           resp == reqs'[s].resp
           live == {row \in sessions : row.token \in b /\ row.expiresAt > now}
       IN /\ live # {} => resp.status = 200 /\ \A row \in live : resp.user = row.userId
          /\ live = {} => resp.status = 401 /\ resp.user = 0
          /\ sessions' = sessions]_vars

\* a request presenting the token of a row whose expiry is exactly now was
\* refused, and the row is still in the table
C19_Witness ==
  \E s \in Slots :
    /\ Finished(s, "session") /\ reqs[s].resp = SessionNotFound
    /\ \E row \in sessions : row.token \in reqs[s].bearer /\ row.expiresAt = now
\* C20: session records are created only by a successful register, login or
\* refresh-token and removed only by logout (the rows of the presented token) and
\* by a successful password-reset (the rows of the ticket's account); no other
\* operation and no failed request creates, removes or modifies a session record.
C20_SessionLifecycle ==
  [][/\ \A row \in sessions' \ sessions :
          \E s \in Slots :
            /\ reqs[s].pc \in {"reg_session", "login_session", "refresh_session"}
            /\ reqs'[s].pc # reqs[s].pc
            /\ row.token = reqs[s].pair.accessToken
            /\ reqs[s].pc # "login_session" => reqs'[s].resp.status \in {200, 201}
     /\ \A s \in Slots :
          reqs[s].pc = "login_update" /\ reqs'[s].pc = "done"
            => reqs'[s].resp.status = 200
     /\ \A row \in sessions \ sessions' :
          \E s \in Slots :
            \/ Arrives(s, "logout") /\ row.token \in reqs'[s].bearer
            \/ /\ reqs[s].pc = "reset_sessions" /\ reqs'[s].pc = "done"
               /\ reqs'[s].resp.status = 200
               /\ row.userId = passwordResets[reqs[s].ticket].userId]_vars
\* C21: every issued access token has exp = iat + 900 and every issued refresh
\* token exp = iat + 604800; no access token is admitted by the auth gate and no
\* refresh token is accepted by refresh-token at a time later than its exp,
\* whatever its signature.
C21_TokenLifetimes ==
  [][/\ \A t \in issued' :
          /\ t.tokenType = "access" => t.exp = t.iat + 900
          /\ t.tokenType = "refresh" => t.exp = t.iat + 604800
     /\ \A s \in Slots : \A t \in reqs'[s].bearer :
          /\ Arrives(s, "gate") /\ t.tokenType = "access" /\ now > t.exp
               => reqs'[s].resp.status = 401 /\ reqs'[s].resp.user = 0
          /\ Arrives(s, "refresh") /\ t.tokenType = "refresh" /\ now > t.exp
               => /\ reqs'[s].pc = "done"
                  /\ reqs'[s].resp.status = 401 /\ reqs'[s].resp.tokens = {}]_vars

\* an access token and a refresh token, both signed by the server, were each
\* presented after their exp and refused
C21_Witness ==
  \E s, q \in Slots : \E a \in reqs[s].bearer, f \in reqs[q].bearer :
    /\ Finished(s, "gate") /\ a.tokenType = "access" /\ a.sig = "valid" /\ a \in issued
    /\ Finished(q, "refresh") /\ f.tokenType = "refresh" /\ f.sig = "valid"
    /\ f.exp = f.iat + 604800 /\ now > f.exp
    /\ reqs[s].resp = InvalidOrExpiredToken /\ reqs[q].resp = RefreshInvalid
\* C22: when JWT_SECRET is not configured every auth operation fails: register,
\* login, refresh-token, GET /auth/me and authMiddleware each answer with an
\* error, and none issues a token, creates a session or admits a request.
C22_NoSecretFailsAll ==
  [][~jwtSecret =>
       /\ issued' = issued
       /\ sessions' = sessions
       /\ \A s \in Slots :
            /\ reqs'[s].pc \notin {"reg_session", "login_session", "login_update",
                                   "refresh_session"}
            /\ reqs'[s] # reqs[s] /\ reqs'[s].pc = "done"
                 /\ reqs'[s].op \in {"register", "login", "refresh", "me", "gate"}
                 => /\ reqs'[s].resp.status \in {401, 409, 500}
                    /\ reqs'[s].resp.tokens = {}
                    /\ reqs'[s].resp.user = 0]_vars

\* without the secret a registration of a new email was answered 500 and a
\* request presenting an unexpired access token signed earlier was refused
C22_Witness ==
  \E s, q \in Slots : \E t \in reqs[q].bearer :
    /\ ~jwtSecret
    /\ Finished(s, "register") /\ reqs[s].resp = RegisterInternalError
    /\ Finished(q, "gate") /\ t \in issued /\ t.tokenType = "access" /\ t.exp > now
    /\ reqs[q].resp = InvalidOrExpiredToken
\* C23: a POST /assets that presents an access token the gate admits and names
\* an existing category is answered 201 with an asset stored for the user of the
\* token.
C23_CreateThenRead ==
  \A s \in Slots :
    Finished(s, "createAsset") /\ reqs[s].uid # 0 =>
      /\ reqs[s].resp.status = 201
      /\ \E a \in reqs[s].resp.data :
           a.userId = reqs[s].uid /\ assets[a.id].userId = reqs[s].uid

RECURSIVE AncestorAt(_, _)
AncestorAt(c, n) ==
  IF c = 0 \/ n = 0 THEN c ELSE AncestorAt(assetCategories[c].parentId, n - 1)

\* C25: after any sequence of category create and update requests the parent
\* relation has no cycle: following the parents from any category ends at a root.
C25_NoParentCycle ==
  \A c \in DOMAIN assetCategories : AncestorAt(c, Len(assetCategories)) = 0

\* C26: a register that is answered anything but 201 has created no account
\* row.
C26_RegisterAllOrNothing ==
  \A s \in Slots :
    Finished(s, "register") /\ reqs[s].resp.status # 201 => reqs[s].uid \notin DOMAIN users

\* C27: a password-reset that is answered with an error has executed none of its
\* writes: the failing statement, if any, is the first one, so the password is
\* never changed while the ticket stays unused.
C27_ResetAllOrNothing ==
  \A s \in Slots :
    Finished(s, "reset") /\ reqs[s].resp.status # 200 =>
      reqs[s].case \notin {"reset_mark", "reset_sessions"}

\* C28: a refresh token issued before a successful password reset of its account
\* is no longer exchanged: a refresh-token request presenting it after the reset
\* is not answered 200 and creates no session.
C28_RefreshDeadAfterReset ==
  \A s \in Slots :
    /\ reqs[s].op = "refresh" /\ "invalidated" \in reqs[s].pre
       => reqs[s].pc # "refresh_session"
    /\ Finished(s, "refresh") /\ "invalidated" \in reqs[s].pre
       => reqs[s].resp.status # 200

\* C29: a GET /auth/me that presents a token of an account that is soft-deleted
\* when the request arrives returns no profile and is answered as authMiddleware
\* answers that token.
C29_MeRejectsDeleted ==
  [][\A s \in Slots :
       /\ Arrives(s, "me")
       /\ \E t \in reqs'[s].bearer : t.userId \in DOMAIN users /\ users[t.userId].deletedAt # {}
       => /\ reqs'[s].resp.user = 0
          /\ reqs'[s].resp = authMiddleware(reqs'[s].bearer)]_vars

\* C30: a GET, PUT or DELETE of /assets/:id or a POST /assets/:id/images that the
\* gate admits for an asset whose deleted_at is set is answered 404 and leaves
\* the assets as they are, and GET /assets returns no such asset.
C30_DeletedAssetGone ==
  [][\A s \in Slots :
       /\ ( /\ \E op \in {"getAsset", "updateAsset", "deleteAsset", "uploadAssetImages"} :
                 Arrives(s, op)
            /\ authMiddleware(reqs'[s].bearer).status = 200
            /\ reqs'[s].id \in DOMAIN assets
            /\ assets[reqs'[s].id].deletedAt # {} )
          => /\ reqs'[s].pc = "done"
             /\ reqs'[s].resp.status = 404
             /\ assets' = assets
       /\ Arrives(s, "listAssets")
          => \A a \in reqs'[s].resp.data : a.deletedAt = {}]_vars

====
